---- MODULE Spec2Model ----
(***************************************************************************)
(* Speech graph analysis (speech-graph-service/app/graph_analyzer.py).     *)
(* A token sequence is turned into a directed weighted word-adjacency      *)
(* graph; structural metrics are computed on it, per sliding window and    *)
(* for the whole transcript; per-window metrics are aggregated with        *)
(* min/avg/max; the graph is exported for visualization.                   *)
(***************************************************************************)
EXTENDS Integers, Sequences, FiniteSets, TLC

(***************************************************************************)
(* Bounds of the model.                                                    *)
(***************************************************************************)
MaxLen == 5          \* longest text (in raw words) handed to an operation
MaxWindow == 3       \* largest window_size an analyzer is constructed with
MaxStep == 2         \* largest step_size an analyzer is constructed with
MaxWindows == 3      \* longest per-window list handed to the aggregator
AggWindow == 5       \* window_size of the analyzer feeding the aggregator

(* A word is a sequence of characters; a text is a sequence of the          *)
(* whitespace-separated chunks of the Python string.                       *)
aa == <<"a", "a">>
bb == <<"b", "b">>
cc == <<"c", "c">>
dd == <<"d", "d">>
ee == <<"e", "e">>
Tokens == {aa, bb, cc}
RawWords == {aa, <<"B", "b", "!">>, <<"7">>}
AggTokens == {aa, bb, cc, dd, ee}

Range(s) == {s[i] : i \in DOMAIN s}
SeqsUpTo(S, n) == UNION {[1..k -> S] : k \in 0..n}

Min(a, b) == IF a < b THEN a ELSE b
Max(a, b) == IF a > b THEN a ELSE b

(***************************************************************************)
(* Python numbers.  An int is exact.  A float is an IEEE-754 binary64:     *)
(* every arithmetic result is the exact result rounded to 53 significant   *)
(* bits, ties to even.  A number is m * 2^e with m a non-negative big      *)
(* integer held as little-endian limbs of LimbBits bits; m is odd (or      *)
(* empty for zero), so equal numbers have equal representations.           *)
(* Exponent range and negative numbers do not arise in this program.       *)
(***************************************************************************)
LimbBits == 15
Base == 32768
Mantissa == 53

RECURSIVE Pow2(_)
Pow2(n) == IF n = 0 THEN 1 ELSE 2 * Pow2(n - 1)

RECURSIVE IntBitLen(_)
IntBitLen(n) == IF n = 0 THEN 0 ELSE 1 + IntBitLen(n \div 2)

RECURSIVE TrailingZeros(_)
TrailingZeros(n) == IF n % 2 = 1 THEN 0 ELSE 1 + TrailingZeros(n \div 2)

RECURSIVE Zeros(_)
Zeros(n) == IF n = 0 THEN <<>> ELSE <<0>> \o Zeros(n - 1)

RECURSIVE BStrip(_)
BStrip(a) ==
    IF a = <<>> THEN a
    ELSE IF a[Len(a)] = 0 THEN BStrip(SubSeq(a, 1, Len(a) - 1)) ELSE a

BFromInt(n) ==
    IF n = 0 THEN <<>>
    ELSE IF n < Base THEN <<n>> ELSE <<n % Base, n \div Base>>

RECURSIVE BAddC(_, _, _)
BAddC(a, b, c) ==
    IF a = <<>> /\ b = <<>> THEN (IF c = 0 THEN <<>> ELSE <<c>>)
    ELSE LET x == IF a = <<>> THEN 0 ELSE Head(a)
             y == IF b = <<>> THEN 0 ELSE Head(b)
             s == x + y + c
         IN  <<s % Base>> \o BAddC(IF a = <<>> THEN a ELSE Tail(a),
                                   IF b = <<>> THEN b ELSE Tail(b),
                                   s \div Base)

BAdd(a, b) == BAddC(a, b, 0)

RECURSIVE BCmpFrom(_, _, _)
BCmpFrom(a, b, i) ==
    IF i = 0 THEN 0
    ELSE IF a[i] < b[i] THEN -1
    ELSE IF a[i] > b[i] THEN 1
    ELSE BCmpFrom(a, b, i - 1)

BCmp(a, b) ==
    IF Len(a) < Len(b) THEN -1
    ELSE IF Len(a) > Len(b) THEN 1
    ELSE BCmpFrom(a, b, Len(a))

RECURSIVE BMulC(_, _, _)
BMulC(a, f, c) ==
    IF a = <<>> THEN (IF c = 0 THEN <<>> ELSE <<c>>)
    ELSE LET p == Head(a) * f + c
         IN  <<p % Base>> \o BMulC(Tail(a), f, p \div Base)

BShl(a, s) ==
    IF a = <<>> THEN a
    ELSE Zeros(s \div LimbBits) \o BMulC(a, Pow2(s % LimbBits), 0)

RECURSIVE BDivFrom(_, _, _, _)
BDivFrom(a, k, i, r) ==
    IF i > Len(a) THEN [q |-> <<>>, r |-> r]
    ELSE LET j == Len(a) + 1 - i
             cur == r * Base + a[j]
             rest == BDivFrom(a, k, i + 1, cur % k)
         IN  [q |-> Append(rest.q, cur \div k), r |-> rest.r]

BDiv(a, k) ==
    LET d == BDivFrom(a, k, 1, 0) IN [q |-> BStrip(d.q), r |-> d.r]

BShr(a, s) ==
    LET w == Min(Len(a), s \div LimbBits)
        d == BDiv(SubSeq(a, w + 1, Len(a)), Pow2(s % LimbBits))
    IN  [q |-> d.q, sticky |-> d.r # 0 \/ \E i \in 1..w : a[i] # 0]

BitLen(a) ==
    IF a = <<>> THEN 0
    ELSE LimbBits * (Len(a) - 1) + IntBitLen(a[Len(a)])

RECURSIVE Canon(_, _)
Canon(m, e) ==
    IF m = <<>> THEN [m |-> <<>>, e |-> 0]
    ELSE IF Head(m) = 0 THEN Canon(Tail(m), e + LimbBits)
    ELSE LET t == TrailingZeros(Head(m))
         IN  IF t = 0 THEN [m |-> m, e |-> e]
             ELSE [m |-> BDiv(m, Pow2(t)).q, e |-> e + t]

Round53(m, e) ==
    LET L == BitLen(m) IN
    IF L <= Mantissa THEN Canon(m, e)
    ELSE LET s == L - Mantissa
             sh == BShr(m, s - 1)
             g == Head(sh.q) % 2
             q == BDiv(sh.q, 2).q
             up == g = 1 /\ (sh.sticky \/ Head(q) % 2 = 1)
         IN  Canon(IF up THEN BAdd(q, <<1>>) ELSE q, e + s)

PyInt(n) ==
    LET c == Canon(BFromInt(n), 0) IN [isfloat |-> FALSE, m |-> c.m, e |-> c.e]

PyCmp(x, y) ==
    LET e == Min(x.e, y.e)
    IN  BCmp(BShl(x.m, x.e - e), BShl(y.m, y.e - e))

PyLe(x, y) == PyCmp(x, y) <= 0
PyLt(x, y) == PyCmp(x, y) < 0
PyEq(x, y) == PyCmp(x, y) = 0

PyAdd(x, y) ==
    LET e == Min(x.e, y.e)
        s == BAdd(BShl(x.m, x.e - e), BShl(y.m, y.e - e))
        c == IF x.isfloat \/ y.isfloat THEN Round53(s, e) ELSE Canon(s, e)
    IN  [isfloat |-> x.isfloat \/ y.isfloat, m |-> c.m, e |-> c.e]

PyTrueDiv(x, k) ==
    LET t == Max(0, Mantissa + 3 + IntBitLen(k) - BitLen(x.m))
        d == BDiv(BShl(x.m, t), k)
        j == BAdd(BShl(d.q, 1), IF d.r # 0 THEN <<1>> ELSE <<>>)
        c == Round53(j, x.e - t - 1)
    IN  [isfloat |-> TRUE, m |-> c.m, e |-> c.e]

(***************************************************************************)
(* preprocess_text: lowercase, drop every character that is not a word     *)
(* character, whitespace or apostrophe, split, drop words of length <= 1   *)
(* and words made of digits only.                                          *)
(***************************************************************************)
Letters == {"a", "b", "c", "d", "e"}
Digits == {"7"}

lower(ch) ==
    CASE ch = "A" -> "a" [] ch = "B" -> "b" [] ch = "C" -> "c"
      [] ch = "D" -> "d" [] ch = "E" -> "e" [] OTHER -> ch

IsWordChar(ch) == lower(ch) \in Letters \/ ch \in Digits \/ ch = "_"

isdigit(w) == w # <<>> /\ \A i \in DOMAIN w : w[i] \in Digits

KeepChar(ch) == IsWordChar(ch) \/ ch = "'"

KeepWord(w) == Len(w) > 1 /\ ~isdigit(w)

NonEmpty(w) == w # <<>>

preprocess_text(text) ==
    LET lowered == [i \in DOMAIN text |->
                       [j \in DOMAIN text[i] |-> lower(text[i][j])]]
        cleaned == [i \in DOMAIN text |-> SelectSeq(lowered[i], KeepChar)]
        words == SelectSeq(cleaned, NonEmpty)
    IN  SelectSeq(words, KeepWord)

(***************************************************************************)
(* networkx.DiGraph as used here: nodes in insertion order, edges in       *)
(* insertion order, one weight per edge.                                   *)
(***************************************************************************)
EmptyGraph == [node |-> <<>>, edge |-> <<>>, weight |-> <<>>]

has_edge(G, u, v) == <<u, v>> \in Range(G.edge)

add_node(G, n) ==
    IF n \in Range(G.node) THEN G ELSE [G EXCEPT !.node = Append(@, n)]

(* Seeded fault: add_edge that registers the target node before the source. *)
add_edge_target_first(G, u, v, w) ==
    LET G1 == add_node(add_node(G, v), u)
        old == G1.weight
    IN  [node |-> G1.node,
         edge |-> IF has_edge(G1, u, v) THEN G1.edge
                  ELSE Append(G1.edge, <<u, v>>),
         weight |-> [p \in DOMAIN old \cup {<<u, v>>} |->
                        IF p = <<u, v>> THEN w ELSE old[p]]]

add_edge(G, u, v, w) ==
    LET G1 == add_node(add_node(G, u), v)
        old == G1.weight
    IN  [node |-> G1.node,
         edge |-> IF has_edge(G1, u, v) THEN G1.edge
                  ELSE Append(G1.edge, <<u, v>>),
         weight |-> [p \in DOMAIN old \cup {<<u, v>>} |->
                        IF p = <<u, v>> THEN w ELSE old[p]]]

number_of_nodes(G) == Len(G.node)
number_of_edges(G) == Len(G.edge)

successors(G, n) == {e[2] : e \in {d \in Range(G.edge) : d[1] = n}}
predecessors(G, n) == {e[1] : e \in {d \in Range(G.edge) : d[2] = n}}

out_degree(G, n) == Cardinality(successors(G, n))
in_degree(G, n) == Cardinality(predecessors(G, n))
degree(G, n) == Cardinality(successors(G, n)) + Cardinality(predecessors(G, n))

(* G.edges(data=True): for every node in node order, its out-edges in the  *)
(* order they were added.                                                  *)
RECURSIVE EdgesFrom(_, _)
EdgesFrom(G, i) ==
    IF i > Len(G.node) THEN <<>>
    ELSE LET FromNode(e) == e[1] = G.node[i]
         IN  SelectSeq(G.edge, FromNode) \o EdgesFrom(G, i + 1)

edges(G) == EdgesFrom(G, 1)

(* Seeded fault: build_speech_graph that never increments a weight.        *)
RECURSIVE BuildFromNoIncrement(_, _, _)
BuildFromNoIncrement(G, words, i) ==
    IF i > Len(words) - 1 THEN G
    ELSE BuildFromNoIncrement(add_edge(G, words[i], words[i + 1], 1),
                              words, i + 1)

RECURSIVE BuildFrom(_, _, _)
BuildFrom(G, words, i) ==
    IF i > Len(words) - 1 THEN G
    ELSE LET source == words[i]
             target == words[i + 1]
         IN  BuildFrom(IF has_edge(G, source, target)
                       THEN [G EXCEPT !.weight[<<source, target>>] = @ + 1]
                       ELSE add_edge(G, source, target, 1),
                       words, i + 1)

build_speech_graph(words) == BuildFrom(EmptyGraph, words, 1)

(***************************************************************************)
(* Metrics of one graph.                                                   *)
(***************************************************************************)
RECURSIVE ReachIn(_, _)
ReachIn(E, S) ==
    LET T == S \cup {e[2] : e \in {d \in E : d[1] \in S}}
    IN  IF T = S THEN S ELSE ReachIn(E, T)

strongly_connected_components(G) ==
    LET E == Range(G.edge)
    IN  {{v \in ReachIn(E, {n}) : n \in ReachIn(E, {v})} : n \in Range(G.node)}

to_undirected(G) ==
    [node |-> G.node,
     edge |-> Range(G.edge) \cup {<<e[2], e[1]>> : e \in Range(G.edge)}]

connected_components(U) == {ReachIn(U.edge, {n}) : n \in Range(U.node)}

LargestLen(components) ==
    CHOOSE k \in {Cardinality(c) : c \in components} :
        \A c \in components : Cardinality(c) <= k

calculate_lsc(G) ==
    IF number_of_nodes(G) = 0 THEN 0
    ELSE LET strongly_connected == strongly_connected_components(G)
         IN  IF strongly_connected = {} THEN 0
             ELSE LargestLen(strongly_connected)

(* Seeded fault: the number of components instead of the largest size.    *)
calculate_lcc_count(G) ==
    IF number_of_nodes(G) = 0 THEN 0
    ELSE Cardinality(connected_components(to_undirected(G)))

calculate_lcc(G) ==
    IF number_of_nodes(G) = 0 THEN 0
    ELSE LET connected == connected_components(to_undirected(G))
         IN  IF connected = {} THEN 0 ELSE LargestLen(connected)

(* Seeded fault: self-loops counted with their weights.                    *)
RECURSIVE SumWeights(_, _)
SumWeights(G, es) ==
    IF es = {} THEN 0
    ELSE LET e == CHOOSE x \in es : TRUE
         IN  G.weight[e] + SumWeights(G, es \ {e})

number_of_selfloops_weighted(G) ==
    SumWeights(G, {e \in Range(G.edge) : e[1] = e[2]})

number_of_selfloops(G) == Cardinality({e \in Range(G.edge) : e[1] = e[2]})

(* nx.simple_cycles: the elementary cycles, each once.  A cycle is named   *)
(* by the set of its rotations.                                            *)
simple_cycles(G, n) ==
    LET E == Range(G.edge)
        N == Range(G.node)
        IsCycle(c) == /\ \A i, j \in 1..n : i # j => c[i] # c[j]
                      /\ \A i \in 1..n : <<c[i], c[(i % n) + 1]>> \in E
        Rotations(c) == {[i \in 1..n |-> c[((i + k) % n) + 1]] : k \in 0..(n - 1)}
    IN  {Rotations(c) : c \in {d \in [1..n -> N] : IsCycle(d)}}

count_loops(G) ==
    [L1 |-> number_of_selfloops(G),
     L2 |-> Cardinality(simple_cycles(G, 2)),
     L3 |-> Cardinality(simple_cycles(G, 3))]

RECURSIVE CountParallel(_, _, _)
CountParallel(G, es, i) ==
    IF i > Len(es) THEN 0
    ELSE (IF G.weight[es[i]] > 1 THEN 1 ELSE 0) + CountParallel(G, es, i + 1)

count_parallel_edges(G) == CountParallel(G, edges(G), 1)

(* nx.density: int 0 without edges or with at most one node, else the     *)
(* float m / (n * (n - 1)); self-loops count among the m edges.            *)
density(G) ==
    LET n == number_of_nodes(G)
        m == number_of_edges(G)
    IN  IF m = 0 \/ n <= 1 THEN PyInt(0)
        ELSE PyTrueDiv(PyInt(m), n * (n - 1))

RECURSIVE SumDegrees(_, _)
SumDegrees(G, i) ==
    IF i > Len(G.node) THEN 0
    ELSE degree(G, G.node[i]) + SumDegrees(G, i + 1)

ZeroMetrics ==
    [nodes |-> 0, edges |-> 0, lsc |-> 0, lcc |-> 0,
     loops |-> [L1 |-> 0, L2 |-> 0, L3 |-> 0],
     parallel_edges |-> 0, density |-> PyInt(0), avg_degree |-> PyInt(0)]

analyze_window(words) ==
    IF words = <<>> THEN ZeroMetrics
    ELSE LET G == build_speech_graph(words)
         IN  [nodes |-> number_of_nodes(G),
              edges |-> number_of_edges(G),
              lsc |-> calculate_lsc(G),
              lcc |-> calculate_lcc(G),
              loops |-> count_loops(G),
              parallel_edges |-> count_parallel_edges(G),
              density |-> IF number_of_nodes(G) > 0 THEN density(G)
                          ELSE PyInt(0),
              avg_degree |-> IF number_of_nodes(G) > 0
                             THEN PyTrueDiv(PyInt(SumDegrees(G, 1)),
                                            number_of_nodes(G))
                             ELSE PyInt(0)]

(***************************************************************************)
(* Sliding windows.  self is the analyzer: window_size and step_size.      *)
(***************************************************************************)
(* Seeded fault: a range that includes its stop value.                     *)
RECURSIVE range_inclusive(_, _, _)
range_inclusive(start, stop, step) ==
    IF start > stop THEN <<>>
    ELSE <<start>> \o range_inclusive(start + step, stop, step)

RECURSIVE range(_, _, _)
range(start, stop, step) ==
    IF start >= stop THEN <<>>
    ELSE <<start>> \o range(start + step, stop, step)

(* words[i:j] of Python, 0-based and clamped to the list *)
Slice(words, i, j) == SubSeq(words, i + 1, Min(j, Len(words)))

sliding_window_analysis(self, text) ==
    LET words == preprocess_text(text)
        starts == range(0, Len(words) - self.window_size + 1, self.step_size)
    IN  IF Len(words) < self.window_size THEN <<analyze_window(words)>>
        ELSE [k \in 1..Len(starts) |->
                 [window_start |-> starts[k],
                  window_end |-> starts[k] + self.window_size]
                 @@ analyze_window(Slice(words, starts[k],
                                         starts[k] + self.window_size))]

(***************************************************************************)
(* _aggregate_window_metrics: avg, min and max of six fields.              *)
(***************************************************************************)
IntKeys == {"nodes", "edges", "lsc", "lcc"}

Value(w, key) == IF key \in IntKeys THEN PyInt(w[key]) ELSE w[key]

RECURSIVE sum(_, _, _)
sum(values, i, total) ==
    IF i > Len(values) THEN total
    ELSE sum(values, i + 1, PyAdd(total, values[i]))

RECURSIVE min(_, _, _)
min(values, i, best) ==
    IF i > Len(values) THEN best
    ELSE min(values, i + 1, IF PyLt(values[i], best) THEN values[i] ELSE best)

RECURSIVE max(_, _, _)
max(values, i, best) ==
    IF i > Len(values) THEN best
    ELSE max(values, i + 1, IF PyLt(best, values[i]) THEN values[i] ELSE best)

AggValues(windows, key) ==
    LET HasKey(w) == key \in DOMAIN w
        with == SelectSeq(windows, HasKey)
    IN  [i \in 1..Len(with) |-> Value(with[i], key)]

AggAvg(windows, key) ==
    LET values == AggValues(windows, key)
    IN  IF values # <<>> THEN PyTrueDiv(sum(values, 1, PyInt(0)), Len(values))
        ELSE PyInt(0)

AggMin(windows, key) ==
    LET values == AggValues(windows, key)
    IN  IF values # <<>> THEN min(values, 2, values[1]) ELSE PyInt(0)

AggMax(windows, key) ==
    LET values == AggValues(windows, key)
    IN  IF values # <<>> THEN max(values, 2, values[1]) ELSE PyInt(0)

_aggregate_window_metrics(windows) ==
    IF windows = <<>> THEN <<>>
    ELSE [avg_nodes |-> AggAvg(windows, "nodes"),
          min_nodes |-> AggMin(windows, "nodes"),
          max_nodes |-> AggMax(windows, "nodes"),
          avg_edges |-> AggAvg(windows, "edges"),
          min_edges |-> AggMin(windows, "edges"),
          max_edges |-> AggMax(windows, "edges"),
          avg_lsc |-> AggAvg(windows, "lsc"),
          min_lsc |-> AggMin(windows, "lsc"),
          max_lsc |-> AggMax(windows, "lsc"),
          avg_lcc |-> AggAvg(windows, "lcc"),
          min_lcc |-> AggMin(windows, "lcc"),
          max_lcc |-> AggMax(windows, "lcc"),
          avg_density |-> AggAvg(windows, "density"),
          min_density |-> AggMin(windows, "density"),
          max_density |-> AggMax(windows, "density"),
          avg_avg_degree |-> AggAvg(windows, "avg_degree"),
          min_avg_degree |-> AggMin(windows, "avg_degree"),
          max_avg_degree |-> AggMax(windows, "avg_degree")]

(***************************************************************************)
(* Visualization export and the full-transcript analysis.                  *)
(***************************************************************************)
node_to_index(G, node) == (CHOOSE i \in DOMAIN G.node : G.node[i] = node) - 1

generate_visualization_data(words) ==
    LET G == build_speech_graph(words)
        es == edges(G)
    IN  [nodes |-> [i \in 1..Len(G.node) |->
                       [id |-> node_to_index(G, G.node[i]),
                        word |-> G.node[i],
                        degree |-> degree(G, G.node[i]),
                        in_degree |-> in_degree(G, G.node[i]),
                        out_degree |-> out_degree(G, G.node[i])]],
         links |-> [i \in 1..Len(es) |->
                       [source |-> node_to_index(G, es[i][1]),
                        target |-> node_to_index(G, es[i][2]),
                        weight |-> G.weight[es[i]]]]]

analyze_full_transcript(self, text) ==
    LET words == preprocess_text(text)
        full_graph == build_speech_graph(words)
        window_metrics == IF Len(words) >= self.window_size
                          THEN sliding_window_analysis(self, text) ELSE <<>>
    IN  IF words = <<>>
        THEN [full_metrics |-> ZeroMetrics,
              window_metrics |-> <<>>,
              aggregated_metrics |-> <<>>,
              visualization |-> [nodes |-> <<>>, links |-> <<>>],
              word_count |-> 0,
              unique_words |-> 0,
              lexical_diversity |-> PyInt(0)]
        ELSE [full_metrics |-> analyze_window(words),
              window_metrics |-> window_metrics,
              aggregated_metrics |-> _aggregate_window_metrics(window_metrics),
              visualization |-> generate_visualization_data(words),
              word_count |-> Len(words),
              unique_words |-> number_of_nodes(full_graph),
              lexical_diversity |->
                  IF Len(words) > 0
                  THEN PyTrueDiv(PyInt(number_of_nodes(full_graph)), Len(words))
                  ELSE PyInt(0)]

(***************************************************************************)
(* The analyzer and its operations.  The operations are pure functions of  *)
(* the analyzer's two fields and of the argument, so a behaviour is the    *)
(* construction of an analyzer followed by one call: op names the          *)
(* operation called, arg its argument and result what it returned.         *)
(***************************************************************************)
VARIABLES window_size, step_size, op, arg, result

vars == <<window_size, step_size, op, arg, result>>

self == [window_size |-> window_size, step_size |-> step_size]

Init ==
    /\ window_size \in 2..MaxWindow
    /\ step_size \in 1..MaxStep
    /\ op = "__init__"
    /\ arg = <<>>
    /\ result = <<>>

Return(name, a, r) ==
    /\ op' = name
    /\ arg' = a
    /\ result' = r
    /\ UNCHANGED <<window_size, step_size>>

BuildSpeechGraph ==
    /\ op = "__init__"
    /\ \E words \in SeqsUpTo(Tokens, MaxLen) :
        Return("build_speech_graph", words, build_speech_graph(words))

AnalyzeWindow ==
    /\ op = "__init__"
    /\ \E words \in SeqsUpTo(Tokens, MaxLen) :
        Return("analyze_window", words, analyze_window(words))

GenerateVisualizationData ==
    /\ op = "__init__"
    /\ \E words \in SeqsUpTo(Tokens, MaxLen) :
        Return("generate_visualization_data", words,
               generate_visualization_data(words))

SlidingWindowAnalysis ==
    /\ op = "__init__"
    /\ \E text \in SeqsUpTo(RawWords, MaxLen) :
        Return("sliding_window_analysis", text,
               sliding_window_analysis(self, text))

AnalyzeFullTranscript ==
    /\ op = "__init__"
    /\ \E text \in SeqsUpTo(RawWords, MaxLen) :
        Return("analyze_full_transcript", text,
               analyze_full_transcript(self, text))

(* The aggregator called on the per-window list of an analyzer whose       *)
(* step_size equals its window_size: the windows are disjoint, so every    *)
(* list of records of AggWindow-token windows is such a list.              *)
AggRecords(size) == {analyze_window(w) : w \in [1..size -> AggTokens]}

AggInit ==
    /\ window_size = AggWindow
    /\ step_size = AggWindow
    /\ op = "__init__"
    /\ arg = <<>>
    /\ result = <<>>

AggregateWindowMetrics ==
    /\ op = "__init__"
    /\ \E recs \in SeqsUpTo(AggRecords(window_size), MaxWindows) :
        LET windows == [k \in DOMAIN recs |->
                           [window_start |-> (k - 1) * step_size,
                            window_end |-> (k - 1) * step_size + window_size]
                           @@ recs[k]]
        IN  Return("_aggregate_window_metrics", windows,
                   _aggregate_window_metrics(windows))

AggNext == AggregateWindowMetrics

SpecAgg == AggInit /\ [][AggNext]_vars

Next ==
    \/ BuildSpeechGraph
    \/ AnalyzeWindow
    \/ GenerateVisualizationData
    \/ SlidingWindowAnalysis
    \/ AnalyzeFullTranscript

Spec == Init /\ [][Next]_vars

(***************************************************************************)
(* What the claims speak of, stated on the token sequence itself.          *)
(***************************************************************************)
Follows(words, u, v) ==
    {i \in 1..(Len(words) - 1) : words[i] = u /\ words[i + 1] = v}

RECURSIVE FirstSeen(_)
FirstSeen(words) ==
    IF words = <<>> THEN <<>>
    ELSE LET before == FirstSeen(SubSeq(words, 1, Len(words) - 1))
             last == words[Len(words)]
         IN  IF last \in Range(before) THEN before ELSE Append(before, last)

Repeat(w, n) == [i \in 1..n |-> w]

One == PyInt(1)
Zero == PyInt(0)

\* C1: for every token sequence, length 1 included, analyze_window reports
\* a node count equal to the number of distinct tokens.
C1_NodeCountIsDistinctTokens ==
    op = "analyze_window" => result.nodes = Cardinality(Range(arg))

\* C2 as stated: L1 equals the number of positions i with
\* token[i] = token[i+1]; one token repeated 5 times gives L1 = 4.
C2_L1CountsAdjacentPairs ==
    op = "analyze_window" =>
        /\ result.loops.L1 =
               Cardinality({i \in 1..(Len(arg) - 1) : arg[i] = arg[i + 1]})
        /\ (arg = Repeat(aa, 5) => result.loops.L1 = 4)

\* C2 amended: L1 equals the number of distinct tokens that are immediately
\* followed by themselves at some position; one token repeated 5 times
\* gives L1 = 1.
C2_L1CountsSelfLoopTokens ==
    op = "analyze_window" =>
        /\ result.loops.L1 =
               Cardinality({t \in Range(arg) : Follows(arg, t, t) # {}})
        /\ (arg = Repeat(aa, 5) => result.loops.L1 = 1)

C2_Witness ==
    op = "analyze_window" /\ arg = Repeat(aa, 5) /\ result.loops.L1 = 1

\* C3: the density reported by analyze_window lies in [0,1], that is
\* edges <= nodes * (nodes - 1) whenever nodes >= 2, and is 0 whenever
\* nodes < 2.
C3_DensityInUnitInterval ==
    op = "analyze_window" =>
        /\ PyLe(Zero, result.density) /\ PyLe(result.density, One)
        /\ (result.nodes >= 2 =>
                result.edges <= result.nodes * (result.nodes - 1))
        /\ (result.nodes < 2 => PyEq(result.density, Zero))

\* C4: a transcript of N tokens, 0 < N < window_size, yields exactly one
\* window, with window_start = 0 and window_end = N, from
\* sliding_window_analysis and in window_metrics of analyze_full_transcript.
C4_ShortTextOneWholeWindow ==
    LET N == Len(preprocess_text(arg))
        ws == IF op = "sliding_window_analysis" THEN result
              ELSE result.window_metrics
    IN  (/\ op \in {"sliding_window_analysis", "analyze_full_transcript"}
         /\ 0 < N /\ N < window_size)
        => /\ Len(ws) = 1
           /\ {"window_start", "window_end"} \subseteq DOMAIN ws[1]
           /\ ws[1].window_start = 0
           /\ ws[1].window_end = N

\* C5: whenever the graph has a node, 1 <= lsc <= lcc <= node count.
C5_ComponentSizesOrdered ==
    (op = "analyze_window" /\ result.nodes > 0) =>
        /\ 1 <= result.lsc
        /\ result.lsc <= result.lcc
        /\ result.lcc <= result.nodes

C5_Witness ==
    /\ op = "analyze_window"
    /\ result.nodes = 3 /\ result.lsc = 2 /\ result.lcc = 3

\* C6: in the result of analyze_full_transcript, lexical_diversity is
\* unique words / word count with unique words the number of distinct
\* tokens: above 0 and at most 1 when word_count > 0 (1 included), 0 when
\* word_count = 0.
C6_LexicalDiversity ==
    op = "analyze_full_transcript" =>
        LET words == preprocess_text(arg)
            unique == Cardinality(Range(words))
        IN  /\ result.word_count = Len(words)
            /\ result.unique_words = unique
            /\ IF Len(words) > 0
               THEN /\ result.lexical_diversity =
                           PyTrueDiv(PyInt(unique), Len(words))
                    /\ PyLt(Zero, result.lexical_diversity)
                    /\ PyLe(result.lexical_diversity, One)
               ELSE PyEq(result.lexical_diversity, Zero)

\* C7: the graph has the edge u->v, u = v included, exactly when u is
\* immediately followed by v somewhere, with weight the number of such
\* positions (so at least 1); parallel_edges is the number of edges of
\* weight > 1; [a,b,a,b,c] gives a->b 2, b->a 1, b->c 1 and
\* parallel_edges 1.
C7_EdgeWeightsCountAdjacency ==
    /\ op = "build_speech_graph" =>
           /\ \A u, v \in Tokens :
                  /\ has_edge(result, u, v) <=> Follows(arg, u, v) # {}
                  /\ has_edge(result, u, v) =>
                         /\ result.weight[<<u, v>>] =
                                Cardinality(Follows(arg, u, v))
                         /\ result.weight[<<u, v>>] >= 1
           /\ DOMAIN result.weight = Range(result.edge)
           /\ (arg = <<aa, bb, aa, bb, cc>> =>
                   /\ Range(result.edge) = {<<aa, bb>>, <<bb, aa>>, <<bb, cc>>}
                   /\ result.weight[<<aa, bb>>] = 2
                   /\ result.weight[<<bb, aa>>] = 1
                   /\ result.weight[<<bb, cc>>] = 1)
    /\ op = "analyze_window" =>
           /\ result.parallel_edges =
                  Cardinality({p \in Tokens \X Tokens :
                                  Cardinality(Follows(arg, p[1], p[2])) > 1})
           /\ (arg = <<aa, bb, aa, bb, cc>> => result.parallel_edges = 1)

C7_Witness ==
    /\ op = "build_speech_graph"
    /\ arg = <<aa, bb, aa, bb, cc>>
    /\ result.weight[<<aa, bb>>] = 2

\* C8: for N >= window_size tokens, sliding_window_analysis returns, in
\* increasing order of start, exactly the windows [start, start + W) for
\* start = 0, S, 2S, ... with start + W <= N: floor((N - W) / S) + 1
\* windows of W tokens each, S apart, none past N.
C8_FullWindowsOnly ==
    LET words == preprocess_text(arg)
        N == Len(words)
        count == ((N - window_size) \div step_size) + 1
    IN  (op = "sliding_window_analysis" /\ N >= window_size) =>
            /\ Len(result) = count
            /\ \A k \in 1..count :
                   LET start == (k - 1) * step_size
                   IN  /\ result[k].window_start = start
                       /\ result[k].window_end = start + window_size
                       /\ result[k].window_end <= N
                       /\ [f \in DOMAIN ZeroMetrics |-> result[k][f]] =
                              analyze_window(
                                  SubSeq(words, start + 1, start + window_size))
            /\ count * step_size + window_size > N

C8_Witness ==
    /\ op = "sliding_window_analysis"
    /\ window_size = 2 /\ step_size = 2
    /\ Len(preprocess_text(arg)) = 5
    /\ Len(result) = 2
    /\ result[2].window_end = 4

\* C9: for a non-empty list of per-window metrics the aggregate has, for
\* each of nodes, edges, lsc, lcc, density and avg_degree,
\* min <= avg <= max with min and max values of some window; for an empty
\* list the aggregate has no keys.
AggKeys == {"nodes", "edges", "lsc", "lcc", "density", "avg_degree"}

AggOf(r, key) ==
    CASE key = "nodes" ->
           [avg |-> r.avg_nodes, min |-> r.min_nodes, max |-> r.max_nodes]
      [] key = "edges" ->
           [avg |-> r.avg_edges, min |-> r.min_edges, max |-> r.max_edges]
      [] key = "lsc" ->
           [avg |-> r.avg_lsc, min |-> r.min_lsc, max |-> r.max_lsc]
      [] key = "lcc" ->
           [avg |-> r.avg_lcc, min |-> r.min_lcc, max |-> r.max_lcc]
      [] key = "density" ->
           [avg |-> r.avg_density, min |-> r.min_density,
            max |-> r.max_density]
      [] key = "avg_degree" ->
           [avg |-> r.avg_avg_degree, min |-> r.min_avg_degree,
            max |-> r.max_avg_degree]

C9_MinAvgMax ==
    op = "_aggregate_window_metrics" =>
        IF arg = <<>> THEN DOMAIN result = {}
        ELSE \A key \in AggKeys :
                 LET a == AggOf(result, key)
                 IN  /\ PyLe(a.min, a.avg)
                     /\ PyLe(a.avg, a.max)
                     /\ \E i \in DOMAIN arg : PyEq(Value(arg[i], key), a.min)
                     /\ \E i \in DOMAIN arg : PyEq(Value(arg[i], key), a.max)

\* C10: generate_visualization_data numbers the nodes 0..V-1 in the order
\* in which the tokens first occur (the node with id k is the k-th distinct
\* token), every degree is in_degree + out_degree, and every link joins
\* ids of emitted nodes and carries the weight of its graph edge.
C10_VisualizationIdsFirstSeen ==
    op = "generate_visualization_data" =>
        LET nodes == result.nodes
            links == result.links
            ids == {nodes[i].id : i \in DOMAIN nodes}
            first == FirstSeen(arg)
            word(id) == first[id + 1]
        IN  /\ ids = 0..(Len(nodes) - 1)
            /\ Len(nodes) <= Len(first)
            /\ (Len(arg) >= 2 => Len(nodes) = Len(first))
            /\ \A i \in DOMAIN nodes :
                   /\ nodes[i].id = i - 1
                   /\ nodes[i].word = word(nodes[i].id)
                   /\ nodes[i].degree =
                          nodes[i].in_degree + nodes[i].out_degree
            /\ \A j \in DOMAIN links :
                   /\ links[j].source \in ids
                   /\ links[j].target \in ids
                   /\ links[j].weight =
                          Cardinality(Follows(arg, word(links[j].source),
                                              word(links[j].target)))
                   /\ links[j].weight >= 1
            /\ Len(links) =
                   Cardinality({p \in Tokens \X Tokens :
                                   Follows(arg, p[1], p[2]) # {}})

C10_Witness ==
    /\ op = "generate_visualization_data"
    /\ arg = <<bb, aa, bb, cc>>
    /\ result.nodes[1].word = bb /\ result.nodes[1].id = 0
    /\ result.nodes[3].word = cc /\ result.nodes[3].id = 2
    /\ Len(result.links) = 3

====
